---------------------------- MODULE Spec2Model ----------------------------
(***************************************************************************)
(* A model of the Mamba implementation of decorr_mamba/model/mamba.py.     *)
(*                                                                         *)
(* Three state machines share this module.                                 *)
(*   SpecFwd  : repeated calls of Mamba.forward on one model, each call    *)
(*              stepped through the embedding, the residual blocks (with   *)
(*              the S6 scan one time step at a time) and the output head;  *)
(*              the token ids may be out of range.                         *)
(*   SpecCalls: the same calls on ids in range, the result of the call     *)
(*              before the last one remembered beside the last one.        *)
(*   SpecCtor : Mamba.__init__ (module tree, parameters, flags, the        *)
(*              _init_weights pass), then in-place parameter updates and   *)
(*              load_state_dict on the constructed model.                  *)
(*                                                                         *)
(* Tensors are sequences: x[l][d], A_bar[l][d][n], indices from 1.  The    *)
(* batch dimension is dropped: every operation of forward acts on each     *)
(* batch element separately.  Floating point numbers are fixed-point       *)
(* integers in units of 1/FxOne, every product rounded down to the grid.   *)
(***************************************************************************)
EXTENDS Integers, Sequences, FiniteSets, TLC

VARIABLES
    \* ---- Mamba.forward and the forwards it calls
    pc,             \* position of the running call
    params,         \* the model's parameters (read by forward)
    ids,            \* the token ids of the running call
    x,              \* Mamba.forward's x: the residual stream, x[l][j]
    layer,          \* index of the residual block being run (from 1)
    xn,             \* self.rms(x) of ResidualMambaBlock.forward
    xm,             \* MambaBlock.forward's x after the split: the main path
    res,            \* MambaBlock.forward's res: the gate path
    xs,             \* S6Block.forward's x: the activated main path
    delta,          \* timestep, delta[l][d]
    B,              \* input-selection vectors, B[l][n]
    A_bar,          \* discretized decay, A_bar[l][d][n]
    B_bar_x,        \* discretized input, B_bar_x[l][d][n]
    C,              \* output-selection vectors, C[l][n]
    h,              \* the scan's running hidden state, h[d][n]
    hidden_states,  \* the scan's list of states, pre-step zero state first
    i,              \* number of iterations of the scan loop done
    outputs,        \* S6Block.forward's return value of the last block run
    last,           \* the call that has just returned or raised
    prev,           \* the call completed before it
    \* ---- Mamba.__init__, parameter updates, load_state_dict
    cpc,            \* position of construction
    args,           \* model_args
    heap,           \* the Parameter objects, by identity
    slots,          \* module._parameters: (module path, name) -> Parameter
    mods,           \* the registered modules, in registration order
    todo,           \* modules self.apply has still to visit
    hits,           \* per Parameter, how often _init_weights rescaled it
    nops,           \* number of updates and loads done on the model
    init_data,      \* per Parameter, the tensor its constructor computed
    \* ---- MambaTrainer, Mamba.to, S6Block.discretize on its own
    trainer,        \* the MambaTrainer and the training run it is in
    placement,      \* where the parameters are and what model_args.device says
    disc,           \* one application of S6Block.discretize and the scan step
    loader          \* one weight import: from_pretrained or from_other

fwdVars == <<pc, params, ids, x, layer, xn, xm, res, xs, delta, B, C, A_bar,
             B_bar_x, h, hidden_states, i, outputs, last, prev>>
ctorVars == <<cpc, args, heap, slots, mods, todo, hits, nops, init_data>>
sideVars == <<trainer, placement, disc, loader>>
vars == <<fwdVars, ctorVars, sideVars>>

\* no trainer, no call of Mamba.to, no separate discretization, no import
SideIdle ==
    /\ trainer = [pc |-> "none"]
    /\ placement = [pc |-> "none"]
    /\ disc = [pc |-> "none"]
    /\ loader = [pc |-> "none"]

----------------------------------------------------------------------------
(* Bounds of the model *)

MaxLen == 2         \* longest token sequence of a call
VocabSize == 2      \* vocab_size
DModel == 2         \* D
DInner == 2         \* D_inner
NState == 2         \* N
ConvK == 2          \* conv_1d_size
DeltaRank == 1      \* delta_rank
NLayersFwd == 1     \* n_layers of the model whose forward is run
MaxSeed == 2        \* number of parameter settings forward is run with
FxOne == 8          \* the fixed-point representation of 1.0
MaxLayers == 2      \* largest n_layers a model is constructed with
MaxOps == 2         \* updates and loads done on a constructed model
MaxDelta == 10      \* largest timestep given to discretize, on the grid
MaxLogA == 24       \* largest magnitude of a log_minus_A entry, on the grid
MaxH == 3           \* largest magnitude of a hidden-state entry, on the grid
MaxEpochs == 2      \* train_args.n_epochs
MaxEpochSteps == 2  \* n_epoch_steps
MaxLoss == 1        \* largest finite validation loss of an epoch

----------------------------------------------------------------------------
(* Fixed-point arithmetic and sequences *)

RECURSIVE SumSeq(_)
SumSeq(s) == IF s = <<>> THEN 0 ELSE Head(s) + SumSeq(Tail(s))

Abs(a) == IF a < 0 THEN -a ELSE a

FxMul(a, b) == (a * b) \div FxOne

FxDiv(a, b) == (a * FxOne) \div b

\* integer square root: the largest r in lo..hi with r * r <= n
RECURSIVE IsqrtIn(_, _, _)
IsqrtIn(n, lo, hi) ==
    IF lo = hi THEN lo
    ELSE LET mid == (lo + hi + 1) \div 2
         IN  IF mid * mid <= n THEN IsqrtIn(n, mid, hi)
             ELSE IsqrtIn(n, lo, mid - 1)

Isqrt(n) == IsqrtIn(n, 0, n)

FxSqrt(a) == Isqrt(a * FxOne)

\* exp: second-order series for z >= 0, its reciprocal for z < 0; underflows
\* to 0 for very negative z as the floating-point exp does
FxExp(z) ==
    LET m == Abs(z)
        e == FxOne + m + FxMul(m, m) \div 2
    IN  IF z >= 0 THEN e ELSE (FxOne * FxOne) \div e

\* sigmoid(a) ~ 1/2 + a / (2 (1 + |a|))
FxSigmoid(a) == FxOne \div 2 + (a * FxOne) \div (2 * (FxOne + Abs(a)))

Zeros(n) == [k \in 1..n |-> 0]

SeqsUpTo(S, n) == UNION {[1..m -> S] : m \in 0..n}


----------------------------------------------------------------------------
(* Parameters forward is run with *)

RmsEps == 1         \* eps of RMSNorm: the smallest positive grid value

\* a weight between -1.0 and 1.0 in steps of 0.5, varying with every index
Gen(seed, tag, a, b) ==
    (((seed * 7 + tag * 5 + a * 3 + b * 2) % 5) - 2) * (FxOne \div 2)

LayerParams(seed, ly) ==
    [ rms_weight   |-> [j \in 1..DModel |-> FxOne],
      in_proj      |-> [o \in 1..(2 * DInner) |->
                          [j \in 1..DModel |-> Gen(seed + ly, 2, o, j)]],
      conv_weight  |-> [d \in 1..DInner |->
                          [k \in 1..ConvK |-> Gen(seed + ly, 3, d, k)]],
      conv_bias    |-> [d \in 1..DInner |-> Gen(seed + ly, 4, d, 0)],
      to_BCdelta   |-> [o \in 1..(DeltaRank + 2 * NState) |->
                          [d \in 1..DInner |-> Gen(seed + ly, 5, o, d)]],
      delta_weight |-> [d \in 1..DInner |->
                          [r \in 1..DeltaRank |-> Gen(seed + ly, 6, d, r)]],
      delta_bias   |-> [d \in 1..DInner |-> Gen(seed + ly, 7, d, 0)],
      log_minus_A  |-> [d \in 1..DInner |->
                          [n \in 1..NState |-> Gen(seed + ly, 8, d, n)]],
      D            |-> [d \in 1..DInner |-> FxOne + Gen(seed + ly, 10, d, 0)],
      out_proj     |-> [j \in 1..DModel |->
                          [d \in 1..DInner |-> Gen(seed + ly, 9, j, d)]] ]

\* logits.weight is embedding.weight (weight tying)
ModelParams(seed) ==
    [ embedding  |-> [v \in 1..VocabSize |->
                        [j \in 1..DModel |-> Gen(seed, 1, v, j)]],
      layers     |-> [ly \in 1..NLayersFwd |-> LayerParams(seed, ly)],
      rms_weight |-> [j \in 1..DModel |-> FxOne] ]

----------------------------------------------------------------------------
(* The tensor operations of forward *)

\* F.softplus(a) = log(1 + exp(a)) ~ (a + sqrt(a^2 + 2)) / 2
FxSoftplus(a) == (a + FxSqrt(FxMul(a, a) + 2 * FxOne)) \div 2

\* F.silu(a) = a * sigmoid(a)
FxSilu(a) == FxMul(a, FxSigmoid(a))

\* nn.Linear: W is out x in, b the bias
Linear(W, b, v) ==
    [o \in 1..Len(W) |->
        SumSeq([j \in 1..Len(v) |-> FxMul(W[o][j], v[j])]) + b[o]]

\* RMSNorm.forward on one token
RMSNorm(weight, v) ==
    LET ms == SumSeq([j \in 1..Len(v) |-> FxMul(v[j], v[j])]) \div Len(v) + RmsEps
        rs == FxDiv(FxOne, FxSqrt(ms))
    IN  [j \in 1..Len(v) |-> FxMul(FxMul(v[j], rs), weight[j])]

\* nn.Embedding: an id outside [0, vocab_size) is an IndexError
IdInRangeWrap(t) == t >= -VocabSize /\ t < VocabSize

IdInRange(t) == t >= 0 /\ t < VocabSize

\* row s[l] of the table; an accepted negative id would count from the end
Embedding(weight, s) == [l \in 1..Len(s) |-> weight[(s[l] % VocabSize) + 1]]

\* nn.Conv1d(groups = D_inner, padding = k - 1): ConvK - 1 zeros on both
\* sides, one kernel per channel, output of length L + ConvK - 1
PaddedRightOnly(inp, m, d) == IF m \in 1..Len(inp) THEN inp[m][d] ELSE 0

Padded(inp, m, d) ==
    IF m - (ConvK - 1) \in 1..Len(inp) THEN inp[m - (ConvK - 1)][d] ELSE 0

Conv1d(p, inp) ==
    [t \in 1..(Len(inp) + ConvK - 1) |->
        [d \in 1..DInner |->
            SumSeq([k \in 1..ConvK |->
                FxMul(p.conv_weight[d][k], Padded(inp, t + k - 1, d))])
            + p.conv_bias[d]]]

\* [:, :, :l] of the convolution output
ConvTruncateLast(full, l) == SubSeq(full, Len(full) - l + 1, Len(full))

ConvTruncate(full, l) == SubSeq(full, 1, l)

\* S6Block.forward up to the discretization
BCdelta(p, xv) == Linear(p.to_BCdelta, Zeros(DeltaRank + 2 * NState), xv)

SplitDelta(v) == SubSeq(v, 1, DeltaRank)

SplitB(v) == SubSeq(v, DeltaRank + 1, DeltaRank + NState)

SplitC(v) == SubSeq(v, DeltaRank + NState + 1, DeltaRank + 2 * NState)

\* delta_upscale and softplus
DeltaUp(p, raw) ==
    LET up == Linear(p.delta_weight, p.delta_bias, raw)
    IN  [d \in 1..DInner |-> FxSoftplus(up[d])]

\* A = -exp(log_minus_A), and delta_A = delta * A at one position
MinusExpA(p) ==
    [d \in 1..DInner |-> [n \in 1..NState |-> -FxExp(p.log_minus_A[d][n])]]

DeltaA(p, dl) ==
    [d \in 1..DInner |-> [n \in 1..NState |->
        FxMul(dl[d], -FxExp(p.log_minus_A[d][n]))]]

\* S6Block.discretize, at one position
DiscretizeAPlus(p, dl) ==
    [d \in 1..DInner |-> [n \in 1..NState |->
        FxExp(FxMul(dl[d], FxExp(p.log_minus_A[d][n])))]]

DiscretizeA(p, dl) ==
    [d \in 1..DInner |-> [n \in 1..NState |->
        FxExp(FxMul(dl[d], -FxExp(p.log_minus_A[d][n])))]]

DiscretizeBx(dl, Bv, xv) ==
    [d \in 1..DInner |-> [n \in 1..NState |->
        FxMul(FxMul(dl[d], Bv[n]), xv[d])]]

\* torch.zeros(b, D_inner, N)
InitialHStale == h

InitialH == [d \in 1..DInner |-> [n \in 1..NState |-> 0]]

\* range(0, l): the index (from 1) visited by iteration number k (from 0)
ScanIndexReversed(k, l) == l - k

ScanIndex(k, l) == k + 1

\* h = A_bar[:,i,:,:] * h + B_bar_x[:,i,:,:]
ScanUpdate(a, hh, bx) ==
    [d \in 1..DInner |-> [n \in 1..NState |->
        FxMul(a[d][n], hh[d][n]) + bx[d][n]]]

\* hidden_states[:, 1:, :, :]
PostStepStatesOffByOne(hs) == SubSeq(hs, 1, Len(hs) - 1)

PostStepStates(hs) == Tail(hs)

\* x * self.D
SkipTermNone(xv, Dv) == 0

SkipTerm(xv, Dv) == FxMul(xv, Dv)

\* einsum('bln, bldn -> bld', C, hidden_states[:, 1:]) + x * D
S6Outputs(p, Cm, hs, inp) ==
    LET post == PostStepStates(hs)
    IN  [l \in 1..Len(inp) |-> [d \in 1..DInner |->
            SumSeq([n \in 1..NState |-> FxMul(Cm[l][n], post[l][d][n])])
            + SkipTerm(inp[l][d], p.D[d])]]

NoBias(n) == Zeros(n)

\* in_proj and the split into the two paths
InProj(p, v) == Linear(p.in_proj, NoBias(2 * DInner), v)

SplitMain(v) == SubSeq(v, 1, DInner)

SplitRes(v) == SubSeq(v, DInner + 1, 2 * DInner)

\* x * F.silu(res), out_proj, and the residual connection, at one position
BlockOutput(p, yv, gate, xin) ==
    LET g == [d \in 1..DInner |-> FxMul(yv[d], FxSilu(gate[d]))]
        o == Linear(p.out_proj, NoBias(DModel), g)
    IN  [j \in 1..DModel |-> o[j] + xin[j]]

\* self.rms and self.logits of Mamba.forward
Logits(p, xf) ==
    [l \in 1..Len(xf) |->
        Linear(p.embedding, NoBias(VocabSize), RMSNorm(p.rms_weight, xf[l]))]


----------------------------------------------------------------------------
(* Modules and Parameters *)

\* a Parameter's value: how it was last written.  kind names the writer, n
\* counts (divisions by sqrt(n_layers) since the last init; the update or
\* load that wrote it), src tells values of one kind and n apart (the
\* Parameter an optimizer step updated, the state-dict entry copied)
Val(kind, n, src) == [kind |-> kind, n |-> n, src |-> src]

Param(val, nwd, nri) ==
    [val |-> val, no_weight_decay |-> nwd, no_reinit |-> nri]

Mod(path, type) == [path |-> path, type |-> type]

Slot(path, name, pid) == [mod |-> path, name |-> name, pid |-> pid]

IsPrefix(a, b) == Len(a) <= Len(b) /\ SubSeq(b, 1, Len(a)) = a

\* module.children(), in registration order
Children(ms, path) ==
    SelectSeq(ms, LAMBDA m : Len(m.path) = Len(path) + 1 /\ IsPrefix(path, m.path))

\* the order in which module.apply(fn) calls fn: children first, then self
RECURSIVE ApplyOrder(_, _), ApplyOrderAll(_, _)
ApplyOrderAll(ms, cs) ==
    IF cs = <<>> THEN <<>>
    ELSE ApplyOrder(ms, Head(cs).path) \o ApplyOrderAll(ms, Tail(cs))

ApplyOrder(ms, path) == ApplyOrderAll(ms, Children(ms, path)) \o <<path>>

\* named_parameters(): a Parameter reached under two names is listed once
RECURSIVE RemoveDuplicate(_, _)
RemoveDuplicate(sq, seen) ==
    IF sq = <<>> THEN <<>>
    ELSE IF Head(sq).pid \in seen THEN RemoveDuplicate(Tail(sq), seen)
    ELSE <<Head(sq)>> \o RemoveDuplicate(Tail(sq), seen \cup {Head(sq).pid})

\* module.named_parameters() of the module at path: names relative to it
NamedParameters(sl, path) ==
    LET below == SelectSeq(sl, LAMBDA e : IsPrefix(path, e.mod))
        named == [k \in 1..Len(below) |->
                    [name |-> SubSeq(below[k].mod, Len(path) + 1, Len(below[k].mod))
                                \o <<below[k].name>>,
                     pid  |-> below[k].pid]]
    IN  RemoveDuplicate(named, {})

SlotsOf(sl, path, name) == SelectSeq(sl, LAMBDA e : e.mod = path /\ e.name = name)

HasSlot(sl, path, name) == SlotsOf(sl, path, name) # <<>>

PidOf(sl, path, name) == SlotsOf(sl, path, name)[1].pid

TypeOf(ms, path) == SelectSeq(ms, LAMBDA m : m.path = path)[1].type

LayersBuilt(ms) == Len(SelectSeq(ms, LAMBDA m : m.type = "ResidualMambaBlock"))

----------------------------------------------------------------------------
(* Mamba.__init__ *)

DeltaInits == {"constant", "random", "zeros"}

\* the branches of S6Block.__init__ on delta_init; "raise" is the else branch
DeltaInitBranch(mode) ==
    IF mode = "constant" THEN "constant_"
    ELSE IF mode = "random" THEN "uniform_"
    ELSE "raise"

\* the Parameters S6Block.__init__ flags _no_weight_decay
NoWeightDecayOnlyA(name) == name = "log_minus_A"

NoWeightDecay(name) == name \in {"log_minus_A", "D"}

\* the modules ResidualMambaBlock(model_args) registers, in order
LayerMods(b) ==
    << Mod(b, "ResidualMambaBlock"),
       Mod(b \o <<"block">>, "MambaBlock"),
       Mod(b \o <<"block", "in_proj">>, "Linear"),
       Mod(b \o <<"block", "conv1d">>, "Conv1d"),
       Mod(b \o <<"block", "s6_block">>, "S6Block"),
       Mod(b \o <<"block", "s6_block", "to_BCdelta">>, "Linear"),
       Mod(b \o <<"block", "s6_block", "delta_upscale">>, "Linear"),
       Mod(b \o <<"block", "out_proj">>, "Linear"),
       Mod(b \o <<"rms">>, "RMSNorm") >>

\* its Parameters, in named_parameters order: [mod, name, param]
LayerParamList(a, b) ==
    LET blk  == b \o <<"block">>
        s6   == blk \o <<"s6_block">>
        P(path, name, kind, nri) ==
            <<[mod |-> path, name |-> name,
               param |-> Param(Val(kind, 0, 0), NoWeightDecay(name), nri)]>>
        Opt(cond, sq) == IF cond THEN sq ELSE <<>>
    IN  P(blk \o <<"in_proj">>, "weight", "kaiming_uniform_", FALSE)
        \o Opt(a.general_bias, P(blk \o <<"in_proj">>, "bias", "uniform_", FALSE))
        \o P(blk \o <<"conv1d">>, "weight", "kaiming_uniform_", FALSE)
        \o Opt(a.conv_bias, P(blk \o <<"conv1d">>, "bias", "uniform_", FALSE))
        \o P(s6, "log_minus_A", "log_arange", FALSE)
        \o P(s6, "D", "ones", FALSE)
        \o P(s6 \o <<"to_BCdelta">>, "weight", "kaiming_uniform_", FALSE)
        \o P(s6 \o <<"delta_upscale">>, "weight", DeltaInitBranch(a.delta_init), FALSE)
        \o P(s6 \o <<"delta_upscale">>, "bias", "inverse_softplus", TRUE)
        \o P(blk \o <<"out_proj">>, "weight", "kaiming_uniform_", FALSE)
        \o Opt(a.general_bias, P(blk \o <<"out_proj">>, "bias", "uniform_", FALSE))
        \o P(b \o <<"rms">>, "weight", "ones", FALSE)

\* s4d_real(): arange(1, N + 1), repeated for each of the D_inner channels
S4dRealFromZero == [d \in 1..DInner |-> [n \in 1..NState |-> n - 1]]

S4dReal == [d \in 1..DInner |-> [n \in 1..NState |-> n]]

\* torch.log, elementwise; log(a) is kept as a term
TorchLog(t) ==
    [d \in 1..Len(t) |-> [n \in 1..Len(t[d]) |-> [fn |-> "log", arg |-> t[d][n]]]]

\* the tensors the constructors compute: torch.log(s4d_real()) for
\* log_minus_A; sampled values are not kept
InitData(lst) ==
    [k \in 1..Len(lst) |->
        IF lst[k].param.val.kind = "log_arange" THEN TorchLog(S4dReal) ELSE <<>>]

\* new Parameter objects for a list of [mod, name, param], after those of hp
NewParams(hp, lst) == hp \o [k \in 1..Len(lst) |-> lst[k].param]

NewSlots(hp, sl, lst) ==
    sl \o [k \in 1..Len(lst) |-> Slot(lst[k].mod, lst[k].name, Len(hp) + k)]

\* self.logits.weight = self.embedding.weight
TiedWeightOwn(embPid, ownPid) == ownPid

TiedWeight(embPid, ownPid) == embPid

\* name == "out_proj.weight"
NameMatchesSuffix(name) ==
    Len(name) >= 2 /\ SubSeq(name, Len(name) - 1, Len(name)) = <<"out_proj", "weight">>

NameMatches(name) == name = <<"out_proj", "weight">>

InitCtor ==
    /\ cpc = "start"
    /\ args \in [n_layers : 0..MaxLayers, delta_init : DeltaInits,
                 general_bias : BOOLEAN, conv_bias : BOOLEAN]
    /\ heap = <<>>
    /\ slots = <<>>
    /\ mods = <<>>
    /\ todo = <<>>
    /\ hits = <<>>
    /\ nops = 0
    /\ init_data = <<>>
    /\ SideIdle
    /\ pc = "none"
    /\ params = <<>>
    /\ ids = <<>>
    /\ x = <<>>
    /\ layer = 0
    /\ xn = <<>>
    /\ xm = <<>>
    /\ res = <<>>
    /\ xs = <<>>
    /\ delta = <<>>
    /\ B = <<>>
    /\ C = <<>>
    /\ A_bar = <<>>
    /\ B_bar_x = <<>>
    /\ h = <<>>
    /\ hidden_states = <<>>
    /\ i = 0
    /\ outputs = <<>>
    /\ last = <<>>
    /\ prev = <<>>

\* super().__init__() and self.embedding = nn.Embedding(vocab_size, D)
CtorEmbedding ==
    /\ cpc = "start"
    /\ mods' = <<Mod(<<>>, "Mamba"), Mod(<<"embedding">>, "Embedding"),
                 Mod(<<"layers">>, "ModuleList")>>
    /\ heap' = <<Param(Val("normal_", 0, 0), FALSE, FALSE)>>
    /\ slots' = <<Slot(<<"embedding">>, "weight", 1)>>
    /\ hits' = <<0>>
    /\ init_data' = <<<<>>>>
    /\ cpc' = "layers"
    /\ UNCHANGED <<args, todo, nops, fwdVars, sideVars>>

\* one ResidualMambaBlock(model_args) of the list self.layers is built from;
\* S6Block.__init__ raises NotImplementedError on an unknown delta_init
CtorLayer ==
    /\ cpc = "layers"
    /\ LayersBuilt(mods) < args.n_layers
    /\ IF DeltaInitBranch(args.delta_init) = "raise"
         THEN /\ cpc' = "raised"
              /\ UNCHANGED <<mods, heap, slots, hits, init_data>>
         ELSE LET b   == <<"layers", ToString(LayersBuilt(mods))>>
                  lst == LayerParamList(args, b)
              IN  /\ mods' = mods \o LayerMods(b)
                  /\ heap' = NewParams(heap, lst)
                  /\ slots' = NewSlots(heap, slots, lst)
                  /\ hits' = hits \o [k \in 1..Len(lst) |-> 0]
                  /\ init_data' = init_data \o InitData(lst)
                  /\ cpc' = "layers"
    /\ UNCHANGED <<args, todo, nops, fwdVars, sideVars>>

\* self.rms, self.logits and the weight tying; self.apply is entered
CtorHead ==
    /\ cpc = "layers"
    /\ LayersBuilt(mods) = args.n_layers
    /\ LET lst == << [mod |-> <<"rms">>, name |-> "weight",
                      param |-> Param(Val("ones", 0, 0), FALSE, FALSE)],
                     [mod |-> <<"logits">>, name |-> "weight",
                      param |-> Param(Val("kaiming_uniform_", 0, 0), FALSE, FALSE)] >>
           sl  == NewSlots(heap, slots, lst)
           own == Len(heap) + 2
           emb == PidOf(slots, <<"embedding">>, "weight")
       IN  /\ mods' = mods \o <<Mod(<<"rms">>, "RMSNorm"), Mod(<<"logits">>, "Linear")>>
           /\ heap' = NewParams(heap, lst)
           /\ slots' = [k \in 1..Len(sl) |->
                          IF sl[k].mod = <<"logits">> /\ sl[k].name = "weight"
                            THEN Slot(<<"logits">>, "weight", TiedWeight(emb, own))
                            ELSE sl[k]]
           /\ hits' = hits \o <<0, 0>>
           /\ init_data' = init_data \o InitData(lst)
           /\ todo' = ApplyOrder(mods', <<>>)
    /\ cpc' = "apply"
    /\ UNCHANGED <<args, nops, fwdVars, sideVars>>

\* getattr(module.bias, "_no_reinit", False)
NoReinitIgnored(param) == FALSE

NoReinit(param) == param.no_reinit

\* _init_weights(module): the Parameters it writes, as a function of the heap
InitWeights(hp, ms, sl, path) ==
    LET type  == TypeOf(ms, path)
        zero  == IF type = "Linear" /\ HasSlot(sl, path, "bias")
                    /\ ~NoReinit(hp[PidOf(sl, path, "bias")])
                   THEN {PidOf(sl, path, "bias")} ELSE {}
        norm  == IF type = "Embedding" THEN {PidOf(sl, path, "weight")} ELSE {}
        np    == NamedParameters(sl, path)
        resc  == {np[k].pid : k \in {q \in 1..Len(np) : NameMatches(np[q].name)}}
    IN  [k \in 1..Len(hp) |->
            IF k \in resc THEN [hp[k] EXCEPT !.val = Val("kaiming_uniform_", 1, 0)]
            ELSE IF k \in zero THEN [hp[k] EXCEPT !.val = Val("zeros_", 0, 0)]
            ELSE IF k \in norm THEN [hp[k] EXCEPT !.val = Val("normal_", 0, 0)]
            ELSE hp[k]]

\* how often _init_weights(module) rescales each Parameter
Rescaled(sl, path, k) ==
    LET np == NamedParameters(sl, path)
    IN  Cardinality({q \in 1..Len(np) : NameMatches(np[q].name) /\ np[q].pid = k})

\* self.apply calls _init_weights on the next module
ApplyInitWeights ==
    /\ cpc = "apply"
    /\ todo # <<>>
    /\ heap' = InitWeights(heap, mods, slots, Head(todo))
    /\ hits' = [k \in 1..Len(hits) |-> hits[k] + Rescaled(slots, Head(todo), k)]
    /\ todo' = Tail(todo)
    /\ UNCHANGED <<cpc, args, slots, mods, nops, init_data, fwdVars, sideVars>>

\* self.apply has visited every module: Mamba(model_args) returns
CtorReturn ==
    /\ cpc = "apply"
    /\ todo = <<>>
    /\ cpc' = "ready"
    /\ UNCHANGED <<args, heap, slots, mods, todo, hits, nops, init_data, fwdVars,
                   sideVars>>

----------------------------------------------------------------------------
(* Updates of the constructed model *)

LivePids(sl) == {sl[k].pid : k \in 1..Len(sl)}

\* optimizer.step(): every Parameter of the model is updated in place
OptimizerStep ==
    /\ cpc = "ready"
    /\ nops < MaxOps
    /\ heap' = [k \in 1..Len(heap) |->
                  IF k \in LivePids(slots)
                    THEN [heap[k] EXCEPT !.val = Val("step", nops + 1, k)]
                    ELSE heap[k]]
    /\ nops' = nops + 1
    /\ UNCHANGED <<cpc, args, slots, mods, todo, hits, init_data, fwdVars,
                   sideVars>>

\* an in-place write through one name of the tied weight
TiedSlots(sl) ==
    {k \in 1..Len(sl) : sl[k].name = "weight" /\ sl[k].mod \in {<<"embedding">>, <<"logits">>}}

InPlaceUpdate(k) ==
    /\ cpc = "ready"
    /\ nops < MaxOps
    /\ heap' = [heap EXCEPT ![slots[k].pid].val = Val("set", nops + 1, k)]
    /\ nops' = nops + 1
    /\ UNCHANGED <<cpc, args, slots, mods, todo, hits, init_data, fwdVars,
                   sideVars>>

\* the entry of a state dict for the k-th key; in a state dict saved from a
\* model with tied weights the entry of logits.weight is that of
\* embedding.weight
StateDictEntry(sl, tied, k) ==
    IF tied /\ sl[k].mod = <<"logits">> /\ sl[k].name = "weight"
      THEN PidOf(sl, <<"embedding">>, "weight") ELSE k

\* load_state_dict: param.copy_(entry) for every key, in the order of the
\* keys, so the last key of a Parameter decides
LoadStateDict(tied) ==
    /\ cpc = "ready"
    /\ nops < MaxOps
    /\ heap' = [q \in 1..Len(heap) |->
                  IF q \in LivePids(slots)
                    THEN LET keys == {k \in 1..Len(slots) : slots[k].pid = q}
                             lastk == CHOOSE k \in keys : \A m \in keys : m <= k
                         IN  [heap[q] EXCEPT !.val =
                                 Val("copy_", nops + 1, StateDictEntry(slots, tied, lastk))]
                    ELSE heap[q]]
    /\ nops' = nops + 1
    /\ UNCHANGED <<cpc, args, slots, mods, todo, hits, init_data, fwdVars,
                   sideVars>>

----------------------------------------------------------------------------
(* MambaTrainer.__init__ *)

\* module.named_parameters(recurse=False): the module's own Parameters
OwnParameters(sl, path) ==
    LET own == SelectSeq(sl, LAMBDA e : e.mod = path)
    IN  [k \in 1..Len(own) |-> own[k].pid]

\* _add_param_to_groups over the modules in the order of model.apply: the
\* Parameters appended to 'no_decay' (flagged TRUE) or to 'decay' (FALSE)
RECURSIVE AddParamToGroups(_, _, _, _)
AddParamToGroups(order, sl, hp, flagged) ==
    IF order = <<>> THEN <<>>
    ELSE SelectSeq(OwnParameters(sl, Head(order)),
                   LAMBDA q : hp[q].no_weight_decay = flagged)
         \o AddParamToGroups(Tail(order), sl, hp, flagged)

\* del self._param_groups["decay"][-1]
DelNone(sq) == sq

DelLast(sq) == SubSeq(sq, 1, Len(sq) - 1)

\* MambaTrainer(mamba_args, train_args, model, device); wd: weight_decay is
\* not None
TrainerInit(wd) ==
    /\ cpc = "ready"
    /\ trainer.pc = "none"
    /\ trainer' =
          [pc |-> "inited",
           weight_decay |-> wd,
           decay |-> IF wd
                       THEN DelLast(AddParamToGroups(ApplyOrder(mods, <<>>), slots, heap, FALSE))
                       ELSE <<>>,
           no_decay |-> IF wd
                          THEN AddParamToGroups(ApplyOrder(mods, <<>>), slots, heap, TRUE)
                          ELSE <<>>]
    /\ UNCHANGED <<fwdVars, ctorVars, placement, disc, loader>>

NextCtor ==
    \/ CtorEmbedding
    \/ CtorLayer
    \/ CtorHead
    \/ ApplyInitWeights
    \/ CtorReturn
    \/ OptimizerStep
    \/ \E k \in TiedSlots(slots) : InPlaceUpdate(k)
    \/ \E tied \in BOOLEAN : LoadStateDict(tied)
    \/ \E wd \in BOOLEAN : TrainerInit(wd)

SpecCtor == InitCtor /\ [][NextCtor]_vars

----------------------------------------------------------------------------
(* Mamba.forward, called again and again on one model *)

\* what callers pass: any ids, one below and one above the range included
IdValues == (-1)..VocabSize

InputSeqs == SeqsUpTo(IdValues, MaxLen)

\* what callers that keep to the forward contract pass
ValidSeqs == SeqsUpTo(0..(VocabSize - 1), MaxLen)

NoCall == [done |-> FALSE, ids |-> <<>>, raised |-> FALSE, logits |-> <<>>]

Raised(s) == [done |-> TRUE, ids |-> s, raised |-> TRUE, logits |-> <<>>]

Returned(s, lg) == [done |-> TRUE, ids |-> s, raised |-> FALSE, logits |-> lg]

CtorIdle ==
    /\ cpc = "none"
    /\ args = [n_layers |-> 0, delta_init |-> "random",
               general_bias |-> FALSE, conv_bias |-> FALSE]
    /\ heap = <<>>
    /\ slots = <<>>
    /\ mods = <<>>
    /\ todo = <<>>
    /\ hits = <<>>
    /\ nops = 0
    /\ init_data = <<>>

InitFwd ==
    /\ pc = "idle"
    /\ params \in {ModelParams(seed) : seed \in 1..MaxSeed}
    /\ ids = <<>>
    /\ x = <<>>
    /\ layer = 1
    /\ xn = <<>>
    /\ xm = <<>>
    /\ res = <<>>
    /\ xs = <<>>
    /\ delta = <<>>
    /\ B = <<>>
    /\ C = <<>>
    /\ A_bar = <<>>
    /\ B_bar_x = <<>>
    /\ h = [d \in 1..DInner |-> [n \in 1..NState |-> 0]]
    /\ hidden_states = <<>>
    /\ i = 0
    /\ outputs = <<>>
    /\ last = NoCall
    /\ prev = NoCall
    /\ CtorIdle
    /\ SideIdle

\* Mamba.forward is entered and self.embedding(x) runs
Forward(s) ==
    /\ pc = "idle"
    /\ ids' = s
    /\ IF \A l \in 1..Len(s) : IdInRange(s[l])
         THEN /\ x' = Embedding(params.embedding, s)
              /\ layer' = 1
              /\ pc' = IF NLayersFwd >= 1 THEN "layer" ELSE "final"
              /\ last' = NoCall
         ELSE /\ pc' = "idle"
              /\ last' = Raised(s)
              /\ UNCHANGED <<x, layer>>
    /\ UNCHANGED <<params, xn, xm, res, xs, delta, B, C, A_bar, B_bar_x, h,
                   hidden_states, i, outputs, ctorVars, sideVars>>

\* ResidualMambaBlock.forward: self.rms(x)
BlockNorm ==
    /\ pc = "layer"
    /\ xn' = [l \in 1..Len(x) |-> RMSNorm(params.layers[layer].rms_weight, x[l])]
    /\ pc' = "in_proj"
    /\ UNCHANGED <<params, ids, x, layer, xm, res, xs, delta, B, C, A_bar,
                   B_bar_x, h, hidden_states, i, outputs, last, prev, ctorVars, sideVars>>

\* MambaBlock.forward: in_proj and the split
BlockInProj ==
    /\ pc = "in_proj"
    /\ xm' = [l \in 1..Len(xn) |-> SplitMain(InProj(params.layers[layer], xn[l]))]
    /\ res' = [l \in 1..Len(xn) |-> SplitRes(InProj(params.layers[layer], xn[l]))]
    /\ pc' = "conv"
    /\ UNCHANGED <<params, ids, x, layer, xn, xs, delta, B, C, A_bar, B_bar_x,
                   h, hidden_states, i, outputs, last, prev, ctorVars, sideVars>>

\* MambaBlock.forward: the convolution, its truncation, and F.silu
BlockConv ==
    /\ pc = "conv"
    /\ LET conv == ConvTruncate(Conv1d(params.layers[layer], xm), Len(xm))
       IN  xs' = [l \in 1..Len(xm) |-> [d \in 1..DInner |-> FxSilu(conv[l][d])]]
    /\ pc' = "s6"
    /\ UNCHANGED <<params, ids, x, layer, xn, xm, res, delta, B, C, A_bar,
                   B_bar_x, h, hidden_states, i, outputs, last, prev, ctorVars, sideVars>>

\* S6Block.forward: to_BCdelta, the split, delta_upscale and softplus
S6Project ==
    /\ pc = "s6"
    /\ LET p == params.layers[layer]
       IN  /\ delta' = [l \in 1..Len(xs) |->
                            DeltaUp(p, SplitDelta(BCdelta(p, xs[l])))]
           /\ B' = [l \in 1..Len(xs) |-> SplitB(BCdelta(p, xs[l]))]
           /\ C' = [l \in 1..Len(xs) |-> SplitC(BCdelta(p, xs[l]))]
    /\ pc' = "discretize"
    /\ UNCHANGED <<params, ids, x, layer, xn, xm, res, xs, A_bar, B_bar_x, h,
                   hidden_states, i, outputs, last, prev, ctorVars, sideVars>>

\* the Parameters after torch.exp(self.log_minus_A.float()) in block ly:
\* exp returns a new tensor and log_minus_A keeps its value
ExpInPlace(p, ly) ==
    [p EXCEPT !.layers[ly].log_minus_A =
        [d \in 1..DInner |-> [n \in 1..NState |-> FxExp(p.layers[ly].log_minus_A[d][n])]]]

ExpOutOfPlace(p, ly) == p

\* S6Block.forward: discretize, and the zero state the scan starts from
S6Discretize ==
    /\ pc = "discretize"
    /\ params' = ExpOutOfPlace(params, layer)
    /\ A_bar' = [l \in 1..Len(xs) |-> DiscretizeA(params.layers[layer], delta[l])]
    /\ B_bar_x' = [l \in 1..Len(xs) |-> DiscretizeBx(delta[l], B[l], xs[l])]
    /\ h' = InitialH
    /\ hidden_states' = <<InitialH>>
    /\ i' = 0
    /\ pc' = "scan"
    /\ UNCHANGED <<ids, x, layer, xn, xm, res, xs, delta, B, C,
                   outputs, last, prev, ctorVars, sideVars>>

\* one iteration of the scan loop
ScanStep ==
    /\ pc = "scan"
    /\ i < Len(xs)
    /\ LET k == ScanIndex(i, Len(xs))
       IN  /\ h' = ScanUpdate(A_bar[k], h, B_bar_x[k])
           /\ hidden_states' = Append(hidden_states, h')
    /\ i' = i + 1
    /\ UNCHANGED <<pc, params, ids, x, layer, xn, xm, res, xs, delta, B, C,
                   A_bar, B_bar_x, outputs, last, prev, ctorVars, sideVars>>

\* the loop is left; the states are stacked and contracted with C
S6Return ==
    /\ pc = "scan"
    /\ i = Len(xs)
    /\ outputs' = S6Outputs(params.layers[layer], C, hidden_states, xs)
    /\ pc' = "gate"
    /\ UNCHANGED <<params, ids, x, layer, xn, xm, res, xs, delta, B, C, A_bar,
                   B_bar_x, h, hidden_states, i, last, prev, ctorVars, sideVars>>

\* MambaBlock.forward: gating and out_proj; the residual connection
BlockEnd ==
    /\ pc = "gate"
    /\ x' = [l \in 1..Len(x) |->
                BlockOutput(params.layers[layer], outputs[l], res[l], x[l])]
    /\ layer' = layer + 1
    /\ pc' = IF layer < NLayersFwd THEN "layer" ELSE "final"
    /\ UNCHANGED <<params, ids, xn, xm, res, xs, delta, B, C, A_bar, B_bar_x,
                   h, hidden_states, i, outputs, last, prev, ctorVars, sideVars>>

\* Mamba.forward: the final norm and the output head; the call returns
Return ==
    /\ pc = "final"
    /\ last' = Returned(ids, Logits(params, x))
    /\ pc' = "idle"
    /\ UNCHANGED <<params, ids, x, layer, xn, xm, res, xs, delta, B, C, A_bar,
                   B_bar_x, h, hidden_states, i, outputs, prev, ctorVars, sideVars>>

ForwardSteps ==
    \/ BlockNorm
    \/ BlockInProj
    \/ BlockConv
    \/ S6Project
    \/ S6Discretize
    \/ ScanStep
    \/ S6Return
    \/ BlockEnd
    \/ Return

\* calls with any ids, one after the other
NextFwd ==
    \/ \E s \in InputSeqs : Forward(s) /\ UNCHANGED prev
    \/ ForwardSteps

SpecFwd == InitFwd /\ [][NextFwd]_vars

\* calls with ids in range, the call before the last one remembered in prev
NextCalls ==
    \/ \E s \in ValidSeqs : Forward(s) /\ prev' = last
    \/ ForwardSteps

SpecCalls == InitFwd /\ [][NextCalls]_vars

\* the seed of the values the Parameters hold
SeedOf(p) == CHOOSE seed \in 1..MaxSeed : p = ModelParams(seed)

\* scaler.step(optimizer) of a training step, between two forward passes:
\* the Parameters get new values
StepBetweenPasses ==
    /\ pc = "idle"
    /\ SeedOf(params) < MaxSeed
    /\ params' = ModelParams(SeedOf(params) + 1)
    /\ UNCHANGED <<pc, ids, x, layer, xn, xm, res, xs, delta, B, C, A_bar, B_bar_x,
                   h, hidden_states, i, outputs, last, prev, ctorVars, sideVars>>

InitPasses == InitFwd /\ params = ModelParams(1)

\* forward passes of a model in training
NextPasses ==
    \/ \E s \in ValidSeqs : Forward(s) /\ UNCHANGED prev
    \/ ForwardSteps
    \/ StepBetweenPasses

SpecPasses == InitPasses /\ [][NextPasses]_vars

----------------------------------------------------------------------------
(* The scan of S6Block.forward *)

Channels == 1..DInner

States == 1..NState

\* C1: while and after the scan loop runs, the list of states holds the zero
\* state followed by one state per time step done, in increasing order of l,
\* each equal to A_bar[l] * (the state before it) + B_bar_x[l]; when the loop
\* is left every step 1..L has been applied exactly once.
C1_ScanInOrder ==
    pc \in {"scan", "gate"} =>
        /\ Len(hidden_states) = i + 1
        /\ i <= Len(xs)
        /\ pc = "gate" => i = Len(xs)
        /\ \A d \in Channels, n \in States : hidden_states[1][d][n] = 0
        /\ \A l \in 1..i, d \in Channels, n \in States :
              hidden_states[l + 1][d][n] =
                  FxMul(A_bar[l][d][n], hidden_states[l][d][n]) + B_bar_x[l][d][n]

\* the loop has run over a sequence of two or more steps, and at the second
\* step both the carried term and the input term are non-zero and the two
\* steps have different inputs
C1_Witness ==
    /\ pc = "gate"
    /\ Len(xs) >= 2
    /\ \E d \in Channels, n \in States :
          /\ FxMul(A_bar[2][d][n], hidden_states[2][d][n]) # 0
          /\ B_bar_x[2][d][n] # 0
          /\ B_bar_x[2][d][n] # B_bar_x[1][d][n]

\* C4: the output of S6Block.forward at step l is C[l] contracted with the
\* state after step l (entry l + 1 of the list, the zero state being entry
\* 1), plus D * x[l].
C4_OutputContraction ==
    pc = "gate" =>
        /\ Len(outputs) = Len(xs)
        /\ \A l \in 1..Len(xs), d \in Channels :
              outputs[l][d] =
                  SumSeq([n \in States |->
                            FxMul(C[l][n], hidden_states[l + 1][d][n])])
                  + FxMul(xs[l][d], params.layers[layer].D[d])

\* a block has run on two or more steps and at some step the contraction with
\* the state before the step would have given another output
C4_Witness ==
    /\ pc = "gate"
    /\ Len(xs) >= 2
    /\ \E l \in 1..Len(xs), d \in Channels :
          SumSeq([n \in States |-> FxMul(C[l][n], hidden_states[l + 1][d][n])])
              # SumSeq([n \in States |-> FxMul(C[l][n], hidden_states[l][d][n])])

\* C10: on an empty sequence S6Block.forward runs to its end and returns an
\* empty output, the list of states holding the zero state alone; on a
\* sequence of one step the state after the step is B_bar_x[1] and the output
\* is C[1] contracted with it plus D * x[1].
C10_ScanBoundary ==
    /\ (pc = "scan" /\ Len(xs) = 0) => ENABLED S6Return
    /\ (pc = "gate" /\ Len(xs) = 0) =>
          /\ outputs = <<>>
          /\ Len(hidden_states) = 1
    /\ (pc = "gate" /\ Len(xs) = 1) =>
          /\ Len(hidden_states) = 2
          /\ \A d \in Channels, n \in States :
                hidden_states[2][d][n] = B_bar_x[1][d][n]
          /\ Len(outputs) = 1
          /\ \A d \in Channels :
                outputs[1][d] =
                    SumSeq([n \in States |-> FxMul(C[1][n], B_bar_x[1][d][n])])
                    + FxMul(xs[1][d], params.layers[layer].D[d])

\* a call on the empty sequence has returned, and the call after it, on one
\* token, has left the scan with a non-zero state and a non-zero skip term
C10_Witness ==
    /\ prev.done /\ ~prev.raised /\ prev.ids = <<>> /\ prev.logits = <<>>
    /\ pc = "gate"
    /\ Len(xs) = 1
    /\ \E d \in Channels, n \in States : B_bar_x[1][d][n] # 0
    /\ \E d \in Channels : FxMul(xs[1][d], params.layers[layer].D[d]) # 0

----------------------------------------------------------------------------
(* Calls of Mamba.forward *)

ZeroState(s) == \A d \in Channels, n \in States : s[d][n] = 0

\* C2: every block starts its scan from the zero state, whatever the last
\* scan left in h, and a call given the ids of the call before it returns the
\* logits that call returned.
C2_StateResetEveryPass ==
    /\ (pc = "scan" /\ i = 0) =>
          /\ ZeroState(h)
          /\ Len(hidden_states) = 1
          /\ ZeroState(hidden_states[1])
    /\ (last.done /\ prev.done /\ last.ids = prev.ids) =>
          /\ last.raised = prev.raised
          /\ last.logits = prev.logits

\* two calls in a row on the same ids of full length have returned, and the
\* scan of the second started although the first had left a non-zero h
C2_Witness ==
    /\ last.done /\ prev.done
    /\ last.ids = prev.ids
    /\ Len(last.ids) = MaxLen
    /\ ~ZeroState(h)
    /\ \E l \in 1..MaxLen, v \in 1..VocabSize : last.logits[l][v] # 0

AgreeBefore(a, b, l) == \A m \in 1..(l - 1) : a[m] = b[m]

MinLen(a, b) == IF Len(a) <= Len(b) THEN Len(a) ELSE Len(b)

\* C3: if the ids of two calls agree at all positions before l and differ at
\* l, the logits the calls return are the same at every position before l.
C3_Causality ==
    (last.done /\ prev.done /\ ~last.raised /\ ~prev.raised) =>
        \A l \in 1..MinLen(last.ids, prev.ids) :
            (AgreeBefore(last.ids, prev.ids, l) /\ last.ids[l] # prev.ids[l])
                => AgreeBefore(last.logits, prev.logits, l)

\* two calls on ids of full length that first differ at the last position
\* have returned, and their logits differ there
C3_Witness ==
    /\ last.done /\ prev.done /\ ~last.raised /\ ~prev.raised
    /\ Len(last.ids) = MaxLen /\ Len(prev.ids) = MaxLen
    /\ AgreeBefore(last.ids, prev.ids, MaxLen)
    /\ last.ids[MaxLen] # prev.ids[MaxLen]
    /\ last.logits[MaxLen] # prev.logits[MaxLen]
    /\ \E v \in 1..VocabSize : last.logits[1][v] # 0

\* C8: a call raises if some id is below 0 or not below vocab_size, and then
\* returns no logits; a call all of whose ids are in range returns logits,
\* one row per position; no call gets past the embedding with an id out of
\* range.
C8_OutOfRangeIdRaises ==
    /\ pc # "idle" => \A l \in 1..Len(ids) : ids[l] \in 0..(VocabSize - 1)
    /\ last.done =>
          /\ last.raised <=>
                \E l \in 1..Len(last.ids) : last.ids[l] \notin 0..(VocabSize - 1)
          /\ last.raised => last.logits = <<>>
          /\ ~last.raised => Len(last.logits) = Len(last.ids)

\* a call whose first id is in range and whose last id is negative has raised
C8_Witness ==
    /\ last.done
    /\ last.raised
    /\ Len(last.ids) = MaxLen
    /\ last.ids[1] \in 0..(VocabSize - 1)
    /\ last.ids[MaxLen] < 0


----------------------------------------------------------------------------
(* Properties of the constructed model *)

\* the weight tying has been done: self.apply runs or the model is returned
Tied == cpc \in {"apply", "ready"}

EmbeddingWeight == PidOf(slots, <<"embedding">>, "weight")

LogitsWeight == PidOf(slots, <<"logits">>, "weight")

\* C5: from the weight tying on, embedding.weight and logits.weight are one
\* Parameter object, so they hold the same value after construction, after
\* every in-place update and after every load_state_dict
C5_WeightTying ==
    Tied => /\ EmbeddingWeight = LogitsWeight
            /\ heap[EmbeddingWeight].val = heap[LogitsWeight].val

\* a state dict whose two entries differ was loaded and then the weight was
\* written in place through logits.weight
C5_Witness ==
    /\ cpc = "ready"
    /\ nops = 2
    /\ args.n_layers = 1
    /\ heap[EmbeddingWeight].val.kind = "set"
    /\ slots[heap[EmbeddingWeight].val.src].mod = <<"logits">>

\* the slots of the Parameters that carry _no_weight_decay
Flagged == {k \in 1..Len(slots) : heap[slots[k].pid].no_weight_decay}

S6Path(ly) == <<"layers", ToString(ly), "block", "s6_block">>

\* C6: the Parameters flagged _no_weight_decay are log_minus_A and D of each
\* layer's S6Block, and no other
C6_NoWeightDecaySet ==
    cpc = "ready" =>
        /\ \A k \in Flagged :
              \E ly \in 0..(args.n_layers - 1) :
                  /\ slots[k].mod = S6Path(ly)
                  /\ slots[k].name \in {"log_minus_A", "D"}
        /\ \A ly \in 0..(args.n_layers - 1) :
              \A name \in {"log_minus_A", "D"} :
                  /\ HasSlot(slots, S6Path(ly), name)
                  /\ heap[PidOf(slots, S6Path(ly), name)].no_weight_decay
        /\ Cardinality(Flagged) = 2 * args.n_layers

C6_Witness ==
    /\ cpc = "ready"
    /\ args.n_layers = 2
    /\ args.general_bias
    /\ args.conv_bias
    /\ Cardinality(Flagged) = 4

OutProjPath(ly) == <<"layers", ToString(ly), "block", "out_proj">>

\* C7: once self.apply is through, the one Parameter rescaled is each
\* MambaBlock's out_proj.weight, exactly once: re-initialised and divided by
\* sqrt(n_layers) one time; no other Parameter is rescaled
C7_RescaledOnce ==
    (cpc = "apply" /\ todo = <<>>) =>
        \A k \in 1..Len(slots) :
            IF slots[k].name = "weight"
               /\ \E ly \in 0..(args.n_layers - 1) : slots[k].mod = OutProjPath(ly)
              THEN /\ hits[slots[k].pid] = 1
                   /\ heap[slots[k].pid].val = Val("kaiming_uniform_", 1, 0)
              ELSE /\ hits[slots[k].pid] = 0
                   /\ heap[slots[k].pid].val.n = 0

C7_Witness ==
    /\ cpc = "apply"
    /\ todo = <<>>
    /\ args.n_layers = 2
    /\ args.general_bias
    /\ hits[PidOf(slots, OutProjPath(1), "weight")] = 1

\* C9: with a delta_init that is neither "constant" nor "random" no model is
\* returned: construction ends in the raise
C9_InvalidDeltaInitRaises ==
    DeltaInitBranch(args.delta_init) = "raise" => cpc # "ready"


----------------------------------------------------------------------------
(* The convolution of MambaBlock.forward *)

\* input position m of channel d, zero before the start of the sequence
PastInput(inp, m, d) == IF m >= 1 THEN inp[m][d] ELSE 0

\* C11: the convolved main path has the length L of its input, and position l
\* of channel d is computed from the kernel and bias of channel d and the
\* input positions l - k + 1 .. l of channel d alone, positions before the
\* start counting as zero: no later position, no other channel.
C11_ConvCausalDepthwise ==
    pc = "s6" =>
        /\ Len(xs) = Len(xm)
        /\ \A l \in 1..Len(xm), d \in 1..DInner :
              xs[l][d] =
                  FxSilu(SumSeq([k \in 1..ConvK |->
                                   FxMul(params.layers[layer].conv_weight[d][k],
                                         PastInput(xm, l - ConvK + k, d))])
                         + params.layers[layer].conv_bias[d])

\* a block has convolved a sequence of full length in which a channel has a
\* non-zero kernel, its input differs between the first two positions and
\* the two channels differ at the first position
C11_Witness ==
    /\ pc = "s6"
    /\ Len(xm) = MaxLen
    /\ xm[1][1] # xm[1][2]
    /\ \E d \in 1..DInner :
          /\ xm[1][d] # xm[2][d]
          /\ xm[2][d] # 0
          /\ \A k \in 1..ConvK : params.layers[layer].conv_weight[d][k] # 0


----------------------------------------------------------------------------
(* S6Block.discretize and one scan step, on given delta, log_minus_A and h *)

\* no call of Mamba.forward
FwdNone ==
    /\ pc = "none"
    /\ params = <<>>
    /\ ids = <<>>
    /\ x = <<>>
    /\ layer = 0
    /\ xn = <<>>
    /\ xm = <<>>
    /\ res = <<>>
    /\ xs = <<>>
    /\ delta = <<>>
    /\ B = <<>>
    /\ C = <<>>
    /\ A_bar = <<>>
    /\ B_bar_x = <<>>
    /\ h = <<>>
    /\ hidden_states = <<>>
    /\ i = 0
    /\ outputs = <<>>
    /\ last = <<>>
    /\ prev = <<>>

Filled(v) == [d \in 1..DInner |-> [n \in 1..NState |-> v]]

\* a timestep above zero (softplus is positive), any log_minus_A, any h
InitDisc ==
    /\ disc \in {[pc |-> "input",
                  delta |-> [d \in 1..DInner |-> dl],
                  log_minus_A |-> Filled(a),
                  h |-> Filled(hv),
                  A |-> <<>>, delta_A |-> <<>>, A_bar |-> <<>>, carried |-> <<>>] :
                    dl \in 1..MaxDelta, a \in (-MaxLogA)..MaxLogA, hv \in (-MaxH)..MaxH}
    /\ trainer = [pc |-> "none"]
    /\ placement = [pc |-> "none"]
    /\ loader = [pc |-> "none"]
    /\ FwdNone
    /\ CtorIdle

\* delta_A and A_bar of S6Block.discretize
DiscDiscretize ==
    /\ disc.pc = "input"
    /\ disc' = [disc EXCEPT !.pc = "discretized",
                            !.A = MinusExpA(disc),
                            !.delta_A = DeltaA(disc, disc.delta),
                            !.A_bar = DiscretizeA(disc, disc.delta)]
    /\ UNCHANGED <<fwdVars, ctorVars, trainer, placement, loader>>

\* the carried term A_bar * h of the scan step
DiscScanStep ==
    /\ disc.pc = "discretized"
    /\ disc' = [disc EXCEPT !.pc = "stepped",
                            !.carried = ScanUpdate(disc.A_bar, disc.h, Filled(0))]
    /\ UNCHANGED <<fwdVars, ctorVars, trainer, placement, loader>>

NextDisc ==
    \/ DiscDiscretize
    \/ DiscScanStep

SpecDisc == InitDisc /\ [][NextDisc]_vars

----------------------------------------------------------------------------
(* Initial values of the constructed model *)

\* self.apply is running or the model is returned and not yet updated
Fresh == cpc = "apply" \/ (cpc = "ready" /\ nops = 0)

\* self.apply is through and the model is not yet updated
Initialised == (cpc = "apply" /\ todo = <<>>) \/ (cpc = "ready" /\ nops = 0)

LinearBiases ==
    {k \in 1..Len(slots) : slots[k].name = "bias" /\ TypeOf(mods, slots[k].mod) = "Linear"}

DeltaUpscalePath(ly) == S6Path(ly) \o <<"delta_upscale">>

\* C13: while and after the init pass runs, the bias of every layer's
\* delta_upscale holds its inverse-softplus values; once the pass is through
\* every other bias of a Linear is zero.
C13_DeltaBiasKept ==
    /\ Fresh =>
          \A ly \in 0..(args.n_layers - 1) :
              /\ HasSlot(slots, DeltaUpscalePath(ly), "bias")
              /\ heap[PidOf(slots, DeltaUpscalePath(ly), "bias")].val
                     = Val("inverse_softplus", 0, 0)
    /\ Initialised =>
          \A k \in LinearBiases :
              (\A ly \in 0..(args.n_layers - 1) : slots[k].mod # DeltaUpscalePath(ly))
                  => heap[slots[k].pid].val = Val("zeros_", 0, 0)

\* a model of two layers with biases on in_proj and out_proj is constructed:
\* the init pass has zeroed those and the second layer's delta_upscale bias
\* is as S6Block.__init__ left it
C13_Witness ==
    /\ cpc = "ready"
    /\ nops = 0
    /\ args.n_layers = 2
    /\ args.general_bias
    /\ heap[PidOf(slots, OutProjPath(1), "bias")].val.kind = "zeros_"
    /\ heap[PidOf(slots, DeltaUpscalePath(1), "bias")].val.kind = "inverse_softplus"
    /\ Cardinality(LinearBiases) = 6


LogMinusA(ly) == PidOf(slots, S6Path(ly), "log_minus_A")

\* C14: while the init pass runs and once the model is returned, every
\* layer's log_minus_A is as S6Block.__init__ wrote it, and what it wrote is
\* log(n) at column n (index n - 1 of the code) of each of the D_inner rows.
C14_LogMinusAInit ==
    Fresh =>
        \A ly \in 0..(args.n_layers - 1) :
            /\ heap[LogMinusA(ly)].val = Val("log_arange", 0, 0)
            /\ Len(init_data[LogMinusA(ly)]) = DInner
            /\ \A d \in 1..DInner :
                  /\ Len(init_data[LogMinusA(ly)][d]) = NState
                  /\ \A n \in 1..NState :
                        init_data[LogMinusA(ly)][d][n] = [fn |-> "log", arg |-> n]

\* a model of two layers has been through the init pass and the last entry
\* of the last row of the second layer's log_minus_A is log(N)
C14_Witness ==
    /\ cpc = "ready"
    /\ nops = 0
    /\ args.n_layers = 2
    /\ hits[PidOf(slots, OutProjPath(1), "weight")] = 1
    /\ init_data[LogMinusA(1)][DInner][NState] = [fn |-> "log", arg |-> NState]


----------------------------------------------------------------------------
(* Parameters during forward *)

\* C15: every step of a forward pass, from the entry of Mamba.forward to its
\* return, leaves the Parameters as they are; they change only in a step
\* taken between two passes, the optimizer step.
C15_ForwardReadsOnly ==
    [][(pc # "idle" \/ pc' # "idle") => params' = params]_vars

\* after the optimizer steps a pass over a sequence of full length has gone
\* through discretize and the scan with the new values
C15_Witness ==
    /\ pc = "gate"
    /\ Len(ids) = MaxLen
    /\ params = ModelParams(MaxSeed)
    /\ params # ModelParams(1)
    /\ \E l \in 1..MaxLen, d \in 1..DInner, n \in 1..NState : hidden_states[l + 1][d][n] # 0


----------------------------------------------------------------------------
(* The parameter groups of MambaTrainer *)

Count(sq, v) == Cardinality({k \in 1..Len(sq) : sq[k] = v})

\* C16: after MambaTrainer.__init__ with a weight_decay, every Parameter of
\* the model is once in 'decay' or once in 'no_decay' and nowhere else, the
\* groups hold nothing but Parameters of the model, the tied weight is once
\* in 'decay', and 'no_decay' holds the Parameters flagged _no_weight_decay
\* and no other.
C16_ParamGroupsPartition ==
    (trainer.pc = "inited" /\ trainer.weight_decay) =>
        /\ \A q \in LivePids(slots) :
              Count(trainer.decay, q) + Count(trainer.no_decay, q) = 1
        /\ \A k \in 1..Len(trainer.decay) : trainer.decay[k] \in LivePids(slots)
        /\ \A k \in 1..Len(trainer.no_decay) : trainer.no_decay[k] \in LivePids(slots)
        /\ Count(trainer.decay, EmbeddingWeight) = 1
        /\ \A q \in LivePids(slots) :
              Count(trainer.no_decay, q) = 1 <=> heap[q].no_weight_decay

\* a trainer with a weight_decay was built on a model of two layers with all
\* biases: four Parameters are exempt and the tied weight is first in 'decay'
C16_Witness ==
    /\ trainer.pc = "inited"
    /\ trainer.weight_decay
    /\ args.n_layers = 2
    /\ args.general_bias
    /\ args.conv_bias
    /\ Len(trainer.no_decay) = 4
    /\ trainer.decay[1] = EmbeddingWeight
    /\ Len(trainer.decay) + Len(trainer.no_decay) = Cardinality(LivePids(slots))


----------------------------------------------------------------------------
(* MambaTrainer.train_induction and overfit_induction *)

\* a validation loss: a finite number, inf or nan
Num(v) == [kind |-> "num", v |-> v]

Inf == [kind |-> "inf", v |-> 0]

NaN == [kind |-> "nan", v |-> 0]

LossValues == {Num(v) : v \in 0..MaxLoss} \cup {Inf, NaN}

\* a <= b on floats
AtMost(a, b) ==
    IF a.kind = "nan" \/ b.kind = "nan" THEN FALSE
    ELSE IF b.kind = "inf" THEN TRUE
    ELSE IF a.kind = "inf" THEN FALSE
    ELSE a.v <= b.v

\* a < b on floats: false when either is nan
Less(a, b) ==
    IF a.kind = "nan" \/ b.kind = "nan" THEN FALSE
    ELSE IF a.kind = "inf" THEN FALSE
    ELSE IF b.kind = "inf" THEN TRUE
    ELSE a.v < b.v

\* the statements of a training step in the order of the loop body; "loop"
\* is the end of the body
AfterDecorrFirst(label) ==
    CASE label = "zero_grad"     -> "forward"
      [] label = "forward"       -> "backward"
      [] label = "backward"      -> "clip"
      [] label = "clip"          -> "decorr_update"
      [] label = "decorr_update" -> "opt_step"
      [] label = "opt_step"      -> "sched_step"
      [] label = "sched_step"    -> "loop"

After(label) ==
    CASE label = "zero_grad"     -> "forward"
      [] label = "forward"       -> "backward"
      [] label = "backward"      -> "clip"
      [] label = "clip"          -> "opt_step"
      [] label = "opt_step"      -> "decorr_update"
      [] label = "decorr_update" -> "sched_step"
      [] label = "sched_step"    -> "loop"

\* the trainer after the statement at label: at the end of the body the
\* step is counted and the loop goes on or is left
Goto(tr, label) ==
    IF After(label) = "loop"
      THEN [tr EXCEPT !.step = tr.step + 1,
                      !.pc = IF tr.step + 1 < MaxEpochSteps THEN "zero_grad"
                             ELSE "epoch_end"]
      ELSE [tr EXCEPT !.pc = After(label)]

Event(tr, e) == [tr EXCEPT !.events = Append(tr.events, e)]

Raise(tr, e) == [tr EXCEPT !.pc = "raised", !.error = e]

\* a call of train_induction or overfit_induction; overfit_induction has no
\* checkpoint arguments
TrainCalls ==
    {[pc |-> "enter", method |-> mt, decorr |-> dc, train_backprop |-> bp,
      train_decorr |-> td, gradient_clip |-> gc, use_amp |-> amp,
      use_lr_sched |-> ls, save_checkpoints |-> sc, save_all_checkpoints |-> sa,
      epoch |-> 0, step |-> 0, events |-> <<>>,
      scaler |-> [enabled |-> FALSE, scale |-> FALSE, stage |-> "READY"],
      nbackward |-> 0, nstep |-> 0, pver |-> 0, dver |-> 0, error |-> "none",
      min_loss |-> Inf, seen |-> <<>>, saved |-> <<>>] :
        mt \in {"train_induction", "overfit_induction"},
        dc \in BOOLEAN, bp \in BOOLEAN, td \in BOOLEAN, gc \in BOOLEAN,
        amp \in BOOLEAN, ls \in BOOLEAN, sc \in BOOLEAN, sa \in BOOLEAN}

InitTrain ==
    /\ trainer \in {tr \in TrainCalls :
                      tr.method = "overfit_induction"
                          => (~tr.save_checkpoints /\ ~tr.save_all_checkpoints)}
    /\ placement = [pc |-> "none"]
    /\ disc = [pc |-> "none"]
    /\ loader = [pc |-> "none"]
    /\ FwdNone
    /\ CtorIdle

\* up to the epoch loop: the assertion on the checkpoint arguments, the
\* optimizer, min_loss, the GradScaler
TrainEnter ==
    /\ trainer.pc = "enter"
    /\ trainer' =
          IF trainer.method = "train_induction"
             /\ ~trainer.save_checkpoints /\ trainer.save_all_checkpoints
            THEN Raise(trainer, "AssertionError")
            ELSE [trainer EXCEPT !.pc = "zero_grad",
                                 !.min_loss = Inf,
                                 !.scaler = [enabled |-> trainer.use_amp,
                                             scale |-> FALSE, stage |-> "READY"]]
    /\ UNCHANGED <<fwdVars, ctorVars, placement, disc, loader>>

\* optimizer.zero_grad() and, for a DecorrMamba, self.model.reset_decorr()
ZeroGrad ==
    /\ trainer.pc = "zero_grad"
    /\ trainer' =
          Goto([trainer EXCEPT !.events =
                    IF trainer.decorr THEN <<"zero_grad", "reset_decorr">>
                    ELSE <<"zero_grad">>],
               "zero_grad")
    /\ UNCHANGED <<fwdVars, ctorVars, placement, disc, loader>>

\* the forward pass and the loss, under autocast
ForwardPass ==
    /\ trainer.pc = "forward"
    /\ trainer' = Goto(Event(trainer, "forward"), "forward")
    /\ UNCHANGED <<fwdVars, ctorVars, placement, disc, loader>>

\* if train_backprop: scaler.scale(loss).backward(); an enabled scaler
\* initialises its scale in scale()
Backward ==
    /\ trainer.pc = "backward"
    /\ trainer' =
          IF trainer.train_backprop
            THEN Goto([Event(trainer, "backward") EXCEPT
                          !.nbackward = trainer.nbackward + 1,
                          !.scaler.scale = trainer.scaler.scale \/ trainer.scaler.enabled],
                      "backward")
            ELSE Goto(trainer, "backward")
    /\ UNCHANGED <<fwdVars, ctorVars, placement, disc, loader>>

\* scaler.unscale_(optimizer): nothing when disabled; else it asserts that
\* scale() has initialised the scale and refuses a second call before update()
Unscale(tr) ==
    IF ~tr.scaler.enabled THEN tr
    ELSE IF ~tr.scaler.scale THEN Raise(tr, "AssertionError")
    ELSE IF tr.scaler.stage # "READY" THEN Raise(tr, "RuntimeError")
    ELSE [tr EXCEPT !.scaler.stage = "UNSCALED"]

\* if gradient_clip is not None: unscale_ and clip_grad_norm_
Clip ==
    /\ trainer.pc = "clip"
    /\ trainer' =
          IF trainer.gradient_clip
            THEN IF Unscale(trainer).pc = "raised" THEN Unscale(trainer)
                 ELSE Goto(Event(Unscale(trainer), "clip"), "clip")
            ELSE Goto(trainer, "clip")
    /\ UNCHANGED <<fwdVars, ctorVars, placement, disc, loader>>

\* if train_backprop: scaler.step(optimizer) and scaler.update()
OptStep ==
    /\ trainer.pc = "opt_step"
    /\ trainer' =
          IF trainer.train_backprop
            THEN IF trainer.scaler.enabled /\ ~trainer.scaler.scale
                   THEN Raise(trainer, "AssertionError")
                   ELSE Goto([Event(trainer, "optimizer_step") EXCEPT
                                 !.nstep = trainer.nstep + 1,
                                 !.pver = trainer.pver + 1,
                                 !.scaler.stage = "READY"],
                             "opt_step")
            ELSE Goto(trainer, "opt_step")
    /\ UNCHANGED <<fwdVars, ctorVars, placement, disc, loader>>

\* if DecorrMamba and train_decorr: self.model.update_decorr_matrices()
DecorrUpdate ==
    /\ trainer.pc = "decorr_update"
    /\ trainer' =
          IF trainer.decorr /\ trainer.train_decorr
            THEN Goto([Event(trainer, "decorr_update") EXCEPT !.dver = trainer.dver + 1],
                      "decorr_update")
            ELSE Goto(trainer, "decorr_update")
    /\ UNCHANGED <<fwdVars, ctorVars, placement, disc, loader>>

\* if use_lr_sched: scheduler.step(); the end of the loop body
SchedStep ==
    /\ trainer.pc = "sched_step"
    /\ trainer' =
          IF trainer.use_lr_sched
            THEN Goto(Event(trainer, "scheduler_step"), "sched_step")
            ELSE Goto(trainer, "sched_step")
    /\ UNCHANGED <<fwdVars, ctorVars, placement, disc, loader>>

\* the checkpoints of train_induction after an epoch with validation loss v
Checkpoints(tr, v) ==
    LET all   == IF tr.save_checkpoints /\ tr.save_all_checkpoints
                   THEN <<tr.epoch>> ELSE <<>>
        best  == IF Less(v, tr.min_loss) /\ tr.save_checkpoints
                    /\ ~tr.save_all_checkpoints
                   THEN <<tr.epoch>> ELSE <<>>
    IN  tr.saved \o all \o best

\* the end of an epoch: train_induction validates (mean loss v), saves and
\* updates min_loss; overfit_induction saves; then the next epoch or return
EpochEnd(v) ==
    /\ trainer.pc = "epoch_end"
    /\ LET nxt == [trainer EXCEPT
                      !.epoch = trainer.epoch + 1,
                      !.step = 0,
                      !.pc = IF trainer.epoch + 1 < MaxEpochs THEN "zero_grad"
                             ELSE "returned"]
       IN  trainer' =
             IF trainer.method = "train_induction"
               THEN [nxt EXCEPT
                        !.seen = Append(trainer.seen, v),
                        !.saved = Checkpoints(trainer, v),
                        !.min_loss = IF Less(v, trainer.min_loss) THEN v
                                     ELSE trainer.min_loss]
               ELSE [nxt EXCEPT !.saved = Append(trainer.saved, trainer.epoch)]
    /\ UNCHANGED <<fwdVars, ctorVars, placement, disc, loader>>

NextTrain ==
    \/ TrainEnter
    \/ ZeroGrad
    \/ ForwardPass
    \/ Backward
    \/ Clip
    \/ OptStep
    \/ DecorrUpdate
    \/ SchedStep
    \/ \E v \in LossValues : EpochEnd(v)

SpecTrain == InitTrain /\ [][NextTrain]_vars


----------------------------------------------------------------------------
(* The order of a training step *)

StepOrder ==
    <<"zero_grad", "reset_decorr", "forward", "backward", "clip",
      "optimizer_step", "decorr_update", "scheduler_step">>

Rank(e) == CHOOSE k \in 1..Len(StepOrder) : StepOrder[k] = e

\* what a step does under the arguments of the call
Occurs(tr, e) ==
    CASE e = "zero_grad"      -> TRUE
      [] e = "reset_decorr"   -> tr.decorr
      [] e = "forward"        -> TRUE
      [] e = "backward"       -> tr.train_backprop
      [] e = "clip"           -> tr.gradient_clip
      [] e = "optimizer_step" -> tr.train_backprop
      [] e = "decorr_update"  -> tr.decorr /\ tr.train_decorr
      [] e = "scheduler_step" -> tr.use_lr_sched

\* a step of the loop has run to the end of the loop body
StepCompleted ==
    /\ trainer.pc \in {"zero_grad", "epoch_end", "returned"}
    /\ trainer.step > 0 \/ trainer.epoch > 0

\* C17: in every training step of train_induction and overfit_induction the
\* events come in the order zero_grad, reset_decorr, forward, backward, clip,
\* optimizer_step, decorr_update, scheduler_step, none twice, so the
\* decorrelation matrices are never updated before the optimizer step; a
\* completed step has done exactly those its arguments ask for.
C17_StepOrder ==
    /\ \A a, b \in 1..Len(trainer.events) :
          a < b => Rank(trainer.events[a]) < Rank(trainer.events[b])
    /\ StepCompleted =>
          trainer.events = SelectSeq(StepOrder, LAMBDA e : Occurs(trainer, e))

\* overfit_induction has returned and its last step did all eight things
C17_Witness ==
    /\ trainer.pc = "returned"
    /\ trainer.method = "overfit_induction"
    /\ trainer.events = StepOrder
    /\ trainer.nstep = MaxEpochs * MaxEpochSteps
    /\ trainer.dver = trainer.nstep

\* C18: train_induction called with train_backprop = False and checkpoint
\* arguments it accepts never calls backward or the optimizer step, raises in
\* no step, and leaves the parameters other than the decorrelation matrices
\* as they were.
C18_NoBackpropRunsClean ==
    (/\ trainer.method = "train_induction"
     /\ ~trainer.train_backprop
     /\ (trainer.save_checkpoints \/ ~trainer.save_all_checkpoints)) =>
        /\ trainer.nbackward = 0
        /\ trainer.nstep = 0
        /\ trainer.pver = 0
        /\ trainer.error = "none"

----------------------------------------------------------------------------
(* The checkpoints of train_induction *)

\* m is the least of the losses seen, nan aside; inf when there is none
LeastSeen(m, seen) ==
    /\ m.kind # "nan"
    /\ m = Inf \/ \E k \in 1..Len(seen) : seen[k] = m
    /\ \A k \in 1..Len(seen) : seen[k].kind = "nan" \/ AtMost(m, seen[k])

\* the loss of epoch e (from 0) is strictly below every loss before it, and
\* below the inf min_loss starts from
StrictlyBest(seen, e) ==
    /\ seen[e + 1].kind = "num"
    /\ \A j \in 1..e : seen[j].kind = "nan" \/ Less(seen[e + 1], seen[j])

\* C19: in train_induction min_loss is the least validation loss seen so far
\* and never goes up; with save_checkpoints and not save_all_checkpoints the
\* epochs saved are those whose loss is strictly below the minimum before
\* them, each once; with save_all_checkpoints every epoch is saved once;
\* without save_checkpoints nothing is saved.
C19_CheckpointPolicy ==
    /\ [](trainer.method = "train_induction" =>
            /\ LeastSeen(trainer.min_loss, trainer.seen)
            /\ \A k \in 1..Len(trainer.saved) : trainer.saved[k] \in 0..(Len(trainer.seen) - 1)
            /\ \A e \in 0..(Len(trainer.seen) - 1) :
                  Count(trainer.saved, e) =
                      IF ~trainer.save_checkpoints THEN 0
                      ELSE IF trainer.save_all_checkpoints THEN 1
                      ELSE IF StrictlyBest(trainer.seen, e) THEN 1 ELSE 0)
    /\ [][trainer.method = "train_induction"
            => AtMost(trainer.min_loss', trainer.min_loss)]_vars

\* train_induction saving the best only has returned: the first epoch was
\* saved, the last one, whose loss was the same, was not
C19_Witness ==
    /\ trainer.pc = "returned"
    /\ trainer.method = "train_induction"
    /\ trainer.save_checkpoints
    /\ ~trainer.save_all_checkpoints
    /\ trainer.seen[1] = Num(0)
    /\ trainer.seen[MaxEpochs] = Num(0)
    /\ trainer.saved = <<0>>
    /\ trainer.min_loss = Num(0)

\* ------------------------------------------------------------------------
\* Mamba.to: where the parameters are and what model_args.device says
\* ------------------------------------------------------------------------

MaxToCalls == 3     \* calls of Mamba.to in a row

\* values an argument of .to() can be: a device name, a device index, a dtype;
\* None for an argument that is absent
Device(name) == [kind |-> "device", v |-> name, n |-> 0]
DeviceIndex(idx) == [kind |-> "index", v |-> "cuda", n |-> idx]
Dtype(name) == [kind |-> "dtype", v |-> name, n |-> 0]
None == [kind |-> "none", v |-> "", n |-> 0]

Devices == {Device("cpu"), Device("cuda")}
\* an integer argument is the index of a cuda device
DeviceIndices == {DeviceIndex(0)}
Dtypes == {Dtype("float32"), Dtype("float16")}

\* the calls: positional arguments (nothing, a device, a dtype, device and
\* dtype) and the keywords device and dtype (None: keyword not given)
ToArgs ==
    {<<>>} \cup {<<v>> : v \in Devices \cup DeviceIndices \cup Dtypes}
           \cup {<<dv, dt>> : dv \in Devices, dt \in Dtypes}
ToKwargs == [device : Devices \cup DeviceIndices \cup {None}, dtype : Dtypes \cup {None}]

\* the device a value stands for
DeviceOf(v) == IF v.kind = "index" THEN Device(v.v) ELSE v

\* torch's parsing of the arguments of Module.to: the device and the dtype
\* asked for (None: leave as is), or a TypeError when one is given twice
ParseTo(positional, kwargs) ==
    LET posDev == IF Len(positional) > 0 /\ positional[1].kind \in {"device", "index"}
                    THEN positional[1] ELSE None
        posDt  == IF Len(positional) > 0 /\ positional[1].kind = "dtype" THEN positional[1]
                  ELSE IF Len(positional) > 1 THEN positional[2] ELSE None
    IN  IF \/ (posDev # None /\ kwargs.device # None)
           \/ (posDt # None /\ kwargs.dtype # None)
          THEN [ok |-> FALSE, device |-> None, dtype |-> None]
          ELSE [ok |-> TRUE,
                device |-> IF posDev # None THEN posDev ELSE kwargs.device,
                dtype |-> IF posDt # None THEN posDt ELSE kwargs.dtype]

\* kwargs.get("device", args[0] if args else None)
DeviceArgument(positional, kwargs) ==
    IF kwargs.device # None THEN kwargs.device
    ELSE IF Len(positional) > 0 THEN positional[1] ELSE None

\* Python's truth value: None and the integer 0 are false, a string, a
\* torch.device and a torch.dtype are true
Truthy(v) == v.kind # "none" /\ ~(v.kind = "index" /\ v.n = 0)

\* a model as constructed: parameters on the cpu in float32, model_args.device
\* naming the cpu
InitTo ==
    /\ placement = [pc |-> "placed",
                    param_device |-> Device("cpu"),
                    param_dtype |-> Dtype("float32"),
                    args_device |-> Device("cpu"),
                    h |-> None,
                    calls |-> 0,
                    error |-> "none"]
    /\ trainer = [pc |-> "none"]
    /\ disc = [pc |-> "none"]
    /\ loader = [pc |-> "none"]
    /\ FwdNone
    /\ CtorIdle

\* Mamba.to with its positional and keyword arguments
To(positional, kwargs) ==
    /\ placement.pc = "placed"
    /\ placement.calls < MaxToCalls
    /\ LET parsed == ParseTo(positional, kwargs)
           device == DeviceArgument(positional, kwargs)
       IN  placement' =
             IF ~parsed.ok
               THEN [placement EXCEPT !.calls = @ + 1, !.error = "TypeError", !.h = None]
               ELSE [placement EXCEPT
                       !.calls = @ + 1,
                       !.error = "none",
                       !.h = None,
                       !.param_device = IF parsed.device # None
                                          THEN DeviceOf(parsed.device) ELSE @,
                       !.param_dtype = IF parsed.dtype # None THEN parsed.dtype ELSE @,
                       !.args_device = IF Truthy(device) THEN device ELSE @]
    /\ UNCHANGED <<fwdVars, ctorVars, trainer, disc, loader>>

\* torch.zeros(...).to(self.model_args.device): the tensor is made on the
\* default device in float32, then moved to the device, or cast to the dtype,
\* that model_args.device holds
ZerosTo(v) ==
    IF v.kind = "dtype"
      THEN [device |-> Device("cpu"), dtype |-> v]
      ELSE [device |-> DeviceOf(v), dtype |-> Dtype("float32")]

\* the zero hidden state of S6Block.forward
HiddenState ==
    /\ placement.pc = "placed"
    /\ placement.h = None
    /\ placement' = [placement EXCEPT !.h = ZerosTo(placement.args_device)]
    /\ UNCHANGED <<fwdVars, ctorVars, trainer, disc, loader>>

NextTo ==
    \/ \E positional \in ToArgs, kwargs \in ToKwargs : To(positional, kwargs)
    \/ HiddenState

SpecTo == InitTo /\ [][NextTo]_vars

\* C20: after any sequence of Mamba.to calls model_args.device names the
\* device of the parameters, and the zero hidden state of S6Block.forward is
\* on that device
C20_DeviceFollowsParameters ==
    placement.pc = "placed" =>
        /\ DeviceOf(placement.args_device) = placement.param_device
        /\ placement.h # None => placement.h.device = placement.param_device

----------------------------------------------------------------------------
(* Weight import: Mamba.from_pretrained and Mamba.from_other *)

MaxImportLayers == 1    \* largest n_layer of an imported checkpoint

\* a Python string as the sequence of its characters, for the names that
\* occur in state-dict keys
Chars(s) ==
    CASE s = "backbone" -> <<"b", "a", "c", "k", "b", "o", "n", "e">>
      [] s = "embedding" -> <<"e", "m", "b", "e", "d", "d", "i", "n", "g">>
      [] s = "weight" -> <<"w", "e", "i", "g", "h", "t">>
      [] s = "bias" -> <<"b", "i", "a", "s">>
      [] s = "layers" -> <<"l", "a", "y", "e", "r", "s">>
      [] s = "mixer" -> <<"m", "i", "x", "e", "r">>
      [] s = "A_log" -> <<"A", "_", "l", "o", "g">>
      [] s = "D" -> <<"D">>
      [] s = "in_proj" -> <<"i", "n", "_", "p", "r", "o", "j">>
      [] s = "conv1d" -> <<"c", "o", "n", "v", "1", "d">>
      [] s = "x_proj" -> <<"x", "_", "p", "r", "o", "j">>
      [] s = "dt_proj" -> <<"d", "t", "_", "p", "r", "o", "j">>
      [] s = "out_proj" -> <<"o", "u", "t", "_", "p", "r", "o", "j">>
      [] s = "norm" -> <<"n", "o", "r", "m">>
      [] s = "norm_f" -> <<"n", "o", "r", "m", "_", "f">>
      [] s = "lm_head" -> <<"l", "m", "_", "h", "e", "a", "d">>
      [] s = "block" -> <<"b", "l", "o", "c", "k">>
      [] s = "s6_block" -> <<"s", "6", "_", "b", "l", "o", "c", "k">>
      [] s = "log_minus_A" -> <<"l", "o", "g", "_", "m", "i", "n", "u", "s", "_", "A">>
      [] s = "rms" -> <<"r", "m", "s">>
      [] s = "to_BCdelta" -> <<"t", "o", "_", "B", "C", "d", "e", "l", "t", "a">>
      [] s = "delta_upscale" -> <<"d", "e", "l", "t", "a", "_", "u", "p", "s", "c", "a", "l", "e">>
      [] s = "logits" -> <<"l", "o", "g", "i", "t", "s">>
      [] s = "0" -> <<"0">>
      [] s = "1" -> <<"1">>
      [] s = "2" -> <<"2">>
      [] s = "3" -> <<"3">>

\* ".".join(path)
RECURSIVE Dotted(_)
Dotted(path) ==
    IF Len(path) = 1 THEN Chars(path[1])
    ELSE Chars(path[1]) \o <<".">> \o Dotted(Tail(path))

\* the chain of new_key.replace(old, new) statements, in their order
ReplacementsNormFirst ==
    << [old |-> Chars("backbone") \o <<".">>, new |-> <<>>],
       [old |-> Chars("mixer"),   new |-> Chars("block")],
       [old |-> Chars("D"),       new |-> Dotted(<<"s6_block", "D">>)],
       [old |-> Chars("A_log"),   new |-> Dotted(<<"s6_block", "log_minus_A">>)],
       [old |-> Chars("norm"),    new |-> Chars("rms")],
       [old |-> Chars("norm_f"),  new |-> Chars("rms")],
       [old |-> Chars("dt_proj"), new |-> Dotted(<<"s6_block", "delta_upscale">>)],
       [old |-> Chars("x_proj"),  new |-> Dotted(<<"s6_block", "to_BCdelta">>)],
       [old |-> Chars("lm_head"), new |-> Chars("logits")] >>

Replacements ==
    << [old |-> Chars("backbone") \o <<".">>, new |-> <<>>],
       [old |-> Chars("mixer"),   new |-> Chars("block")],
       [old |-> Chars("D"),       new |-> Dotted(<<"s6_block", "D">>)],
       [old |-> Chars("A_log"),   new |-> Dotted(<<"s6_block", "log_minus_A">>)],
       [old |-> Chars("norm_f"),  new |-> Chars("rms")],
       [old |-> Chars("norm"),    new |-> Chars("rms")],
       [old |-> Chars("dt_proj"), new |-> Dotted(<<"s6_block", "delta_upscale">>)],
       [old |-> Chars("x_proj"),  new |-> Dotted(<<"s6_block", "to_BCdelta">>)],
       [old |-> Chars("lm_head"), new |-> Chars("logits")] >>

\* the characters of a key carry the number of the replacement that wrote
\* them, 0 for the text of the source key
Tagged(text, j) == [k \in 1..Len(text) |-> [c |-> text[k], by |-> j]]
Plain(key) == [k \in 1..Len(key) |-> key[k].c]

\* str.replace(old, new): every occurrence, found from the left, occurrences
\* not overlapping; j is the number of the statement
RECURSIVE Replace(_, _, _, _)
Replace(key, old, new, j) ==
    IF Len(key) < Len(old) THEN key
    ELSE IF Plain(SubSeq(key, 1, Len(old))) = old
      THEN Tagged(new, j) \o Replace(SubSeq(key, Len(old) + 1, Len(key)), old, new, j)
      ELSE <<Head(key)>> \o Replace(Tail(key), old, new, j)

\* the state dict of a MambaLMHeadModel with n layers: keys (as paths) and
\* tensor shapes
ReferenceLayer(l) ==
    LET mixer == <<"backbone", "layers", ToString(l), "mixer">>
    IN  << [key |-> mixer \o <<"A_log">>,              shape |-> <<DInner, NState>>],
           [key |-> mixer \o <<"D">>,                  shape |-> <<DInner>>],
           [key |-> mixer \o <<"in_proj", "weight">>,  shape |-> <<2 * DInner, DModel>>],
           [key |-> mixer \o <<"conv1d", "weight">>,   shape |-> <<DInner, 1, ConvK>>],
           [key |-> mixer \o <<"conv1d", "bias">>,     shape |-> <<DInner>>],
           [key |-> mixer \o <<"x_proj", "weight">>,   shape |-> <<DeltaRank + 2 * NState, DInner>>],
           [key |-> mixer \o <<"dt_proj", "weight">>,  shape |-> <<DInner, DeltaRank>>],
           [key |-> mixer \o <<"dt_proj", "bias">>,    shape |-> <<DInner>>],
           [key |-> mixer \o <<"out_proj", "weight">>, shape |-> <<DModel, DInner>>],
           [key |-> <<"backbone", "layers", ToString(l), "norm", "weight">>,
                                                       shape |-> <<DModel>>] >>

RECURSIVE ReferenceStateDict(_)
ReferenceStateDict(n) ==
    IF n = 0
      THEN << [key |-> <<"backbone", "embedding", "weight">>, shape |-> <<VocabSize, DModel>>],
              [key |-> <<"backbone", "norm_f", "weight">>,   shape |-> <<DModel>>],
              [key |-> <<"lm_head", "weight">>,              shape |-> <<VocabSize, DModel>>] >>
      ELSE LET less == ReferenceStateDict(n - 1)
           IN  SubSeq(less, 1, Len(less) - 2) \o ReferenceLayer(n - 1)
               \o SubSeq(less, Len(less) - 1, Len(less))

\* the state dicts handed to the import: the reference one, one with a key
\* missing, one with a key too many (keys a checkpoint of another variant of
\* the architecture carries), one with a tensor of another shape
SourceStateDicts(n) ==
    LET ref == ReferenceStateDict(n)
        ExtraEntries ==
            { [key |-> <<"backbone", "norm_f", "bias">>, shape |-> <<DModel>>],
              [key |-> <<"backbone", "layers", "0", "mixer", "in_proj", "bias">>,
               shape |-> <<2 * DInner>>] }
        Without(sd, k) == SubSeq(sd, 1, k - 1) \o SubSeq(sd, k + 1, Len(sd))
        Reshaped(sd, k) == [sd EXCEPT ![k].shape = [@ EXCEPT ![1] = @ + 1]]
    IN  {[dict |-> ref, kind |-> "reference"]}
        \cup {[dict |-> Without(ref, k), kind |-> "missing"] : k \in 1..Len(ref)}
        \cup {[dict |-> ref \o <<e>>, kind |-> "extra"] : e \in ExtraEntries}
        \cup {[dict |-> Reshaped(ref, k), kind |-> "mismatch"] : k \in 1..Len(ref)}

\* the shape of the model's Parameter name of the module at path
ParamShape(path, name) ==
    LET owner == path[Len(path)]
    IN  CASE owner \in {"embedding", "logits"} -> <<VocabSize, DModel>>
          [] owner = "rms" -> <<DModel>>
          [] owner = "in_proj" -> IF name = "weight" THEN <<2 * DInner, DModel>>
                                  ELSE <<2 * DInner>>
          [] owner = "conv1d" -> IF name = "weight" THEN <<DInner, 1, ConvK>>
                                 ELSE <<DInner>>
          [] owner = "s6_block" -> IF name = "log_minus_A" THEN <<DInner, NState>>
                                   ELSE <<DInner>>
          [] owner = "to_BCdelta" -> <<2 * NState + DeltaRank, DInner>>
          [] owner = "delta_upscale" -> IF name = "weight" THEN <<DInner, DeltaRank>>
                                        ELSE <<DInner>>
          [] owner = "out_proj" -> IF name = "weight" THEN <<DModel, DInner>>
                                   ELSE <<DModel>>

\* model.state_dict() of Mamba(model_args): key text and shape per entry
ModelStateDict(a) ==
    LET RECURSIVE ModelLayers(_)
        ModelLayers(l) ==
            IF l >= a.n_layers THEN <<>>
            ELSE LayerParamList(a, <<"layers", ToString(l)>>) \o ModelLayers(l + 1)
        lst == << [mod |-> <<"embedding">>, name |-> "weight"] >>
               \o ModelLayers(0)
               \o << [mod |-> <<"rms">>, name |-> "weight"],
                     [mod |-> <<"logits">>, name |-> "weight"] >>
    IN  [k \in 1..Len(lst) |->
           [key |-> Dotted(lst[k].mod \o <<lst[k].name>>),
            shape |-> ParamShape(lst[k].mod, lst[k].name)]]

\* the model_args the two imports construct the model with: from_other spells
\* the bias switches out; from_pretrained leaves them to MambaArgs
ImportArgs ==
    {[method |-> "from_other", n_layers |-> n, general_bias |-> FALSE,
      conv_bias |-> TRUE, delta_init |-> "random"] : n \in 0..MaxImportLayers}
    \cup
    {[method |-> "from_pretrained", n_layers |-> n, general_bias |-> gb,
      conv_bias |-> cb, delta_init |-> "random"] :
        n \in 0..MaxImportLayers, gb \in BOOLEAN, cb \in BOOLEAN}

\* an import is entered with the state dict of a checkpoint of as many layers
\* as the model is built with; the loop stands at its first key
InitImport ==
    /\ loader \in UNION {{[pc |-> "rename",
                            model_args |-> a,
                            source |-> sd.kind,
                            state_dict |-> sd.dict,
                            k |-> 1,
                            step |-> 1,
                            new_key |-> Tagged(Dotted(sd.dict[1].key), 0),
                            new_state_dict |-> <<>>,
                            error |-> "none"] : sd \in SourceStateDicts(a.n_layers)} :
                          a \in ImportArgs}
    /\ trainer = [pc |-> "none"]
    /\ placement = [pc |-> "none"]
    /\ disc = [pc |-> "none"]
    /\ FwdNone
    /\ CtorIdle

\* one new_key = new_key.replace(old, new) statement of the loop body
ReplaceStep ==
    /\ loader.pc = "rename"
    /\ loader.step <= Len(Replacements)
    /\ loader' = [loader EXCEPT
                    !.step = @ + 1,
                    !.new_key = Replace(@, Replacements[loader.step].old,
                                        Replacements[loader.step].new, loader.step)]
    /\ UNCHANGED <<fwdVars, ctorVars, trainer, placement, disc>>

\* new_state_dict[new_key] = state_dict[key], and on to the next key
StoreKey ==
    /\ loader.pc = "rename"
    /\ loader.step > Len(Replacements)
    /\ LET old == loader.new_state_dict
           entry == [key |-> Plain(loader.new_key),
                     shape |-> loader.state_dict[loader.k].shape]
           d == IF \E q \in 1..Len(old) : old[q].key = entry.key
                  THEN [q \in 1..Len(old) |->
                          IF old[q].key = entry.key THEN entry ELSE old[q]]
                  ELSE Append(old, entry)
       IN  loader' =
             IF loader.k < Len(loader.state_dict)
               THEN [loader EXCEPT
                       !.new_state_dict = d,
                       !.k = @ + 1,
                       !.step = 1,
                       !.new_key = Tagged(Dotted(loader.state_dict[loader.k + 1].key), 0)]
               ELSE [loader EXCEPT !.new_state_dict = d, !.new_key = <<>>, !.pc = "load"]
    /\ UNCHANGED <<fwdVars, ctorVars, trainer, placement, disc>>

\* model.load_state_dict(new_state_dict), strict: missing keys, unexpected
\* keys and size mismatches raise RuntimeError
LoadNewStateDict ==
    /\ loader.pc = "load"
    /\ LET own == ModelStateDict(loader.model_args)
           new == loader.new_state_dict
           KeySet(d) == {d[k].key : k \in 1..Len(d)}
           missing == KeySet(own) \ KeySet(new)
           unexpected == KeySet(new) \ KeySet(own)
           mismatched == {e \in {own[k] : k \in 1..Len(own)} :
                            \E q \in 1..Len(new) : new[q].key = e.key /\ new[q].shape # e.shape}
       IN  loader' =
             IF missing = {} /\ unexpected = {} /\ mismatched = {}
               THEN [loader EXCEPT !.pc = "loaded"]
               ELSE [loader EXCEPT !.pc = "raised", !.error = "RuntimeError"]
    /\ UNCHANGED <<fwdVars, ctorVars, trainer, placement, disc>>

NextImport ==
    \/ ReplaceStep
    \/ StoreKey
    \/ LoadNewStateDict

SpecImport == InitImport /\ [][NextImport]_vars

\* C21: the chain of replacements maps the keys of a state dict to distinct
\* keys, and those of the reference state dict to exactly the keys of the
\* model's own state dict; no replacement matches text an earlier one wrote;
\* the load accepts the reference state dict and rejects one with a missing,
\* an extra or a shape-mismatched key.
C21_KeyRenaming ==
    LET Entries(d) == {d[k] : k \in 1..Len(d)}
        reference == ModelStateDict([n_layers |-> loader.model_args.n_layers,
                                     general_bias |-> FALSE, conv_bias |-> TRUE,
                                     delta_init |-> "random"])
        expectsReference == Entries(ModelStateDict(loader.model_args)) = Entries(reference)
        old == Replacements[loader.step].old
        Occurrences ==
            {p \in 1..(Len(loader.new_key) - Len(old) + 1) :
                Plain(SubSeq(loader.new_key, p, p + Len(old) - 1)) = old}
    IN  /\ (loader.pc = "rename" /\ loader.step <= Len(Replacements)) =>
              \A p \in Occurrences : \A q \in p..(p + Len(old) - 1) :
                  loader.new_key[q].by = 0
        /\ loader.pc \in {"load", "loaded", "raised"} =>
              /\ Len(loader.new_state_dict) = Len(loader.state_dict)
              /\ loader.source = "reference" =>
                    Entries(loader.new_state_dict) = Entries(reference)
        /\ (loader.pc \in {"loaded", "raised"} /\ expectsReference) =>
              (loader.pc = "loaded" <=> loader.source = "reference")
        /\ (loader.pc \in {"loaded", "raised"} /\ ~expectsReference) =>
              (loader.source = "reference" => loader.pc = "raised")

\* from_pretrained has loaded the renamed reference state dict of the largest
\* checkpoint: every key of every layer went through the chain
C21_Witness ==
    /\ loader.pc = "loaded"
    /\ loader.model_args.method = "from_pretrained"
    /\ loader.model_args.n_layers = MaxImportLayers
    /\ loader.source = "reference"
    /\ Len(loader.new_state_dict) = 3 + 10 * MaxImportLayers
    /\ \E k \in 1..Len(loader.new_state_dict) :
          loader.new_state_dict[k].key
              = Dotted(<<"layers", "0", "block", "s6_block", "delta_upscale", "bias">>)

====
